---- MODULE Spec2Model ----
(***************************************************************************)
(* Model of tooling/minimize/src/enums.rs: translate_enum, int_from_bits   *)
(* and discriminant_for_variant.  The layout computed by the compiler is   *)
(* the input; the translated Type::Enum (variants with their taggers, the  *)
(* discriminator, the discriminant type, the size) is the output.          *)
(***************************************************************************)
EXTENDS Integers, Sequences, FiniteSets, TLC

VARIABLES
    pc,                      \* position: "start", "loop", "done", "queried", "bits", "bits_done"
    layout,                  \* the resolved layout handed to translate_enum
    variant_idx,             \* loop variable of `for (variant_idx, variant_def) in ...`
    translated_variants,     \* Map<Int, Variant> under construction
    discriminator_branches,  \* Map<(Int, Int), Discriminator> under construction
    result,                  \* the Type::Enum returned by translate_enum
    query,                   \* last call of discriminant_for_variant: [idx, value]
    bits_in,                 \* argument of a stand-alone int_from_bits call: [bits, ity]
    bits_out                 \* its return value

vars == <<pc, layout, variant_idx, translated_variants, discriminator_branches,
          result, query, bits_in, bits_out>>

----------------------------------------------------------------------------
(* Bounds of the model *)

\* Direct and single-variant enums have 1..MaxVariants variants, niche enums 2..MaxVariants.
MaxVariants == 3

\* One large niche enum is modelled as well: more variants than a signed tag byte has
\* non-negative values.
ManyVariants == 130

\* Integer widths of the model.  The code handles 8, 16, 32, 64 and 128 bits; the
\* integers of the model hold 8 and 16.
Widths == {8, 16}

\* Tags are one byte wide in the model.
TagWidths == {8}

\* Size in bytes of the modelled enums.
LayoutSize == 2

----------------------------------------------------------------------------
(* Integer types and the bit codec *)

Pow2(n) == 2 ^ n

IntType(signed, bits) == [signed |-> signed, bits |-> bits]

IntTypes == {IntType(s, w) : s \in BOOLEAN, w \in Widths}

TagTypes == {IntType(s, w) : s \in BOOLEAN, w \in TagWidths}

\* rs::Size::signed_int_min / the Int::ZERO of an unsigned type
IntMin(ity) == IF ity.signed THEN 0 - Pow2(ity.bits - 1) ELSE 0

\* rs::Size::signed_int_max / rs::Size::unsigned_int_max
IntMax(ity) == IF ity.signed THEN Pow2(ity.bits - 1) - 1 ELSE Pow2(ity.bits) - 1

IntDomain(ity) == IntMin(ity) .. IntMax(ity)

\* rs::Size::truncate: the low `bits` bits of a u128
Truncate(bits, w) == bits % Pow2(w)

\* Faulty variant of IntFromBits: the sign bit is not extended.
IntFromBitsNoSignExtend(bits, ity) == Truncate(bits, ity.bits)

\* int_from_bits: truncate when unsigned, sign-extend from bit `bits - 1` when signed
IntFromBits(bits, ity) ==
    IF ~ity.signed
    THEN Truncate(bits, ity.bits)
    ELSE IF Truncate(bits, ity.bits) >= Pow2(ity.bits - 1)
         THEN Truncate(bits, ity.bits) - Pow2(ity.bits)
         ELSE Truncate(bits, ity.bits)

\* The two's-complement bit pattern of x at width w (the compiler's encoding, and the
\* interpreter's encoding of a tag it writes).
ToBits(x, w) == x % Pow2(w)

\* Int::modulo(signed, size): wrap x into the domain of the integer type
Modulo(x, ity) ==
    IF ity.signed
    THEN ((x + Pow2(ity.bits - 1)) % Pow2(ity.bits)) - Pow2(ity.bits - 1)
    ELSE x % Pow2(ity.bits)

----------------------------------------------------------------------------
(* The input: the layout the compiler computed (layout.variants(), adt_def) *)

\* Discriminant values the modelled enums declare.
DiscrSamples == {0 - 128, 0 - 1, 0, 1, 127, 255}

\* The declared discriminants of 1..MaxVariants variants, pairwise distinct.
DiscrSeqs ==
    {s \in UNION {[1..n -> DiscrSamples] : n \in 1..MaxVariants} :
        \A i, j \in DOMAIN s : i # j => s[i] # s[j]}

\* The tag is the first or the last byte of the enum.
TagOffsets == {0, LayoutSize - 1}

\* Raw bit patterns the bounds of a tag's valid range are drawn from.
RangeSamples == {0, 5, 10, 99, 100, 127, 128, 250, 255}

\* Bounds of the valid range of the large niche enum.
WideRangeSamples == {0, 128, 255}

\* Number of bit patterns in the wrap-around range start..=end of a w-bit scalar.
WrapSize(start, end, w) == ((end - start) % Pow2(w)) + 1

\* The bit patterns of the wrap-around range start..=end.
WrapRange(start, end, w) == {(start + k) % Pow2(w) : k \in 0 .. (WrapSize(start, end, w) - 1)}

\* adt_def.discriminant_for_variant(tcx, idx).val: the discriminant's bit pattern at
\* the width of the discriminant type.
DiscrVal(l, idx) == l.discr[idx + 1]

VariantIdxs(l) == 0 .. (l.nvariants - 1)

\* The discriminant the enum declares for variant idx (the logical value of which
\* discr.val is the bit pattern).
Declared(l, idx) == l.declared[idx + 1]

\* The discriminant type of an enum without a repr attribute (isize), the widest
\* signed type of the model.  Only such enums get a single-variant or a niche layout.
IsizeTy == IntType(TRUE, 16)

\* The declared discriminants lie in the enum's discriminant type.
DiscrShapes ==
    {sh \in DiscrSeqs \X IntTypes :
        \A i \in DOMAIN sh[1] : sh[1][i] \in IntDomain(sh[2])}

SingleShapes == {sh \in DiscrShapes : sh[2] = IsizeTy}

\* Variants::Single { index }
SingleLayouts ==
    {[kind |-> "Single", nvariants |-> Len(sh[1]), declared |-> sh[1],
      discr |-> [i \in DOMAIN sh[1] |-> ToBits(sh[1][i], sh[2].bits)],
      discriminant_ty |-> sh[2], size |-> LayoutSize, index |-> idx,
      tag_ty |-> IntType(FALSE, 8), tag_offset |-> 0,
      untagged_variant |-> 0, niche_variants |-> <<0, 0>>, niche_start |-> 0,
      valid_range |-> <<0, 0>>] :
        sh \in SingleShapes, idx \in 0 .. (MaxVariants - 1)}

\* The tag of a directly tagged enum can hold every declared discriminant.
DirectShapes ==
    {sh \in DiscrShapes \X TagTypes :
        \A i \in DOMAIN sh[1][1] : sh[1][1][i] \in IntDomain(sh[2])}

\* Variants::Multiple { tag_encoding: TagEncoding::Direct, .. }
DirectLayouts ==
    {[kind |-> "Direct", nvariants |-> Len(sh[1][1]), declared |-> sh[1][1],
      discr |-> [i \in DOMAIN sh[1][1] |-> ToBits(sh[1][1][i], sh[1][2].bits)],
      discriminant_ty |-> sh[1][2], size |-> LayoutSize, index |-> 0,
      tag_ty |-> sh[2], tag_offset |-> off,
      untagged_variant |-> 0, niche_variants |-> <<0, 0>>, niche_start |-> 0,
      valid_range |-> <<0, 0>>] :
        sh \in DirectShapes, off \in TagOffsets}

\* First and last variant index other than the untagged one: niche_variants.  Every
\* variant other than the untagged one lies in niche_variants (no variant is left
\* without a tag value).
NicheFirst(n, u) == IF u = 0 THEN 1 ELSE 0

NicheLast(n, u) == IF u = n - 1 THEN n - 2 ELSE n - 1

\* Number of variants, untagged variant, valid range and tag type of a niche enum.
\* The niche reserves one tag value per index of niche_variants inside the valid range.
NicheShapes ==
    {sh \in ({<<n, u, r>> : n \in 2 .. MaxVariants, u \in 0 .. (MaxVariants - 1),
                            r \in RangeSamples \X RangeSamples}
             \cup {<<ManyVariants, u, r>> : u \in {0, ManyVariants - 1},
                                            r \in WideRangeSamples \X WideRangeSamples})
            \X TagTypes :
        /\ sh[1][2] < sh[1][1]
        /\ NicheLast(sh[1][1], sh[1][2]) - NicheFirst(sh[1][1], sh[1][2]) + 1
               <= WrapSize(sh[1][3][1], sh[1][3][2], sh[2].bits)}

\* Variants::Multiple { tag_encoding: TagEncoding::Niche { .. }, .. }: the niche lies
\* at the low or at the high end of the tag's valid range, and the discriminants are
\* the variant indices.
NicheLayouts ==
    {[kind |-> "Niche", nvariants |-> sh[1][1], declared |-> [i \in 1 .. sh[1][1] |-> i - 1],
      discr |-> [i \in 1 .. sh[1][1] |-> i - 1],
      discriminant_ty |-> IsizeTy, size |-> LayoutSize, index |-> 0,
      tag_ty |-> sh[2], tag_offset |-> off,
      untagged_variant |-> sh[1][2],
      niche_variants |-> <<NicheFirst(sh[1][1], sh[1][2]), NicheLast(sh[1][1], sh[1][2])>>,
      niche_start |-> IF low THEN sh[1][3][1]
                      ELSE (sh[1][3][2] - (NicheLast(sh[1][1], sh[1][2])
                                           - NicheFirst(sh[1][1], sh[1][2])))
                           % Pow2(sh[2].bits),
      valid_range |-> sh[1][3]] :
        sh \in NicheShapes, off \in TagOffsets, low \in BOOLEAN}

Layouts ==
    {l \in SingleLayouts : l.index < l.nvariants} \cup DirectLayouts \cup NicheLayouts

\* Number of tag values the niche reserves.
NicheCount(l) == l.niche_variants[2] - l.niche_variants[1] + 1

\* The tag values the niche reserves, as bit patterns.
NicheBits(l) == {(l.niche_start + k) % Pow2(l.tag_ty.bits) : k \in 0 .. (NicheCount(l) - 1)}

\* The bit patterns the tag field of the untagged variant can hold: the valid range
\* without the reserved niche values.
UntaggedBits(l) ==
    WrapRange(l.valid_range[1], l.valid_range[2], l.tag_ty.bits) \ NicheBits(l)

----------------------------------------------------------------------------
(* The output: Type::Enum, Variant, Discriminator *)

\* Discriminator::Known(v)
Known(v) == [node |-> "Known", v |-> v]

\* Discriminator::Invalid
Invalid == [node |-> "Invalid"]

\* Discriminator::Branch { offset, value_type, fallback, children }
Branch(offset, value_type, fallback, children) ==
    [node |-> "Branch", offset |-> offset, value_type |-> value_type,
     fallback |-> fallback, children |-> children]

\* Variant { ty: Type::Tuple { fields, size, align }, tagger }; `fields` are the
\* translated fields of variant `idx`, kept as that index.
Variant(idx, size, tagger) == [fields |-> idx, size |-> size, tagger |-> tagger]

\* Type::Enum { variants, discriminator, discriminant_ty, size, align }
EnumType(variants, discriminator, discriminant_ty, size) ==
    [variants |-> variants, discriminator |-> discriminator,
     discriminant_ty |-> discriminant_ty, size |-> size]

\* Map::new()
EmptyMap == <<>>

\* Map::insert: a later insertion under the same key replaces the earlier one.
MapInsert(m, k, v) == [x \in (DOMAIN m) \cup {k} |-> IF x = k THEN v ELSE m[x]]

NoEnum == EnumType(EmptyMap, Invalid, IntType(FALSE, 8), 0)

NoQuery == [idx |-> 0, value |-> 0]

NoBits == [bits |-> 0, ity |-> IntType(FALSE, 8), value |-> 0]

----------------------------------------------------------------------------
(* translate_enum *)

\* let discr_int = int_from_bits(discr.val, discriminant_ty);
DiscrInt(l, idx) == IntFromBits(DiscrVal(l, idx), l.discriminant_ty)

\* The key and terminal of a single-variant enum: Int::ZERO.
SingleKey(l) == 0

\* Faulty variant of DirectTagger: the tagger holds the raw bits discr.val.
DirectTaggerRawBits(l, idx) ==
    MapInsert(EmptyMap, l.tag_offset, <<l.tag_ty, DiscrVal(l, idx)>>)

\* Direct tagging: the tagger holds the discriminant.
DirectTagger(l, idx) == MapInsert(EmptyMap, l.tag_offset, <<l.tag_ty, DiscrInt(l, idx)>>)

\* Direct tagging: all other tag values are invalid.
DirectFallback(l) == Invalid

\* A tagged variant of a niche enum: let discr_int = int_from_bits(discr.val, tag_ty);
NicheDiscrInt(l, idx) == IntFromBits(DiscrVal(l, idx), l.tag_ty)

\* Faulty variant of NicheTagInt: the sum is not wrapped into the tag type.
NicheTagIntNoModulo(l, idx) == NicheDiscrInt(l, idx) - l.niche_variants[1] + l.niche_start

\* Faulty variant of NicheTagInt: niche_variants.start is not subtracted.
NicheTagIntNoStart(l, idx) == Modulo(NicheDiscrInt(l, idx) + l.niche_start, l.tag_ty)

\* (discr_int - niche_variants.start + niche_start).modulo(tag_ty.signed, tag_ty.size)
NicheTagInt(l, idx) ==
    Modulo(NicheDiscrInt(l, idx) - l.niche_variants[1] + l.niche_start, l.tag_ty)

\* Faulty variant of NicheInvalidBranches: the upper gap starts at end, not end + 1.
NicheInvalidBranchesOverlap(l) ==
    LET start == IntFromBits(l.valid_range[1], l.tag_ty)
        end == IntFromBits(l.valid_range[2], l.tag_ty)
        min == IntMin(l.tag_ty)
        max == IntMax(l.tag_ty)
    IN  IF start <= end
        THEN (IF end < max THEN {<<end, max>>} ELSE {})
             \cup (IF min < start THEN {<<min, start - 1>>} ELSE {})
        ELSE IF end + 1 < start
             THEN {<<end + 1, start - 1>>}
             ELSE {}

\* Faulty variant of NicheInvalidBranches: the gap below start is forgotten.
NicheInvalidBranchesNoLow(l) ==
    LET start == IntFromBits(l.valid_range[1], l.tag_ty)
        end == IntFromBits(l.valid_range[2], l.tag_ty)
        max == IntMax(l.tag_ty)
    IN  IF start <= end
        THEN (IF end < max THEN {<<end + 1, max>>} ELSE {})
        ELSE IF end + 1 < start
             THEN {<<end + 1, start - 1>>}
             ELSE {}

\* Faulty variant of NicheInvalidBranches: a wrapping valid range gets no gap.
NicheInvalidBranchesNoWrap(l) ==
    LET start == IntFromBits(l.valid_range[1], l.tag_ty)
        end == IntFromBits(l.valid_range[2], l.tag_ty)
        min == IntMin(l.tag_ty)
        max == IntMax(l.tag_ty)
    IN  IF start <= end
        THEN (IF end < max THEN {<<end + 1, max>>} ELSE {})
             \cup (IF min < start THEN {<<min, start - 1>>} ELSE {})
        ELSE {}

\* The children that map to Invalid, derived from the tag's valid range.
NicheInvalidBranches(l) ==
    LET start == IntFromBits(l.valid_range[1], l.tag_ty)
        end == IntFromBits(l.valid_range[2], l.tag_ty)
        min == IntMin(l.tag_ty)
        max == IntMax(l.tag_ty)
    IN  IF start <= end
        THEN (IF end < max THEN {<<end + 1, max>>} ELSE {})
             \cup (IF min < start THEN {<<min, start - 1>>} ELSE {})
        ELSE IF end + 1 < start
             THEN {<<end + 1, start - 1>>}
             ELSE {}

\* discriminator_branches.insert(range, Discriminator::Invalid) for each range
InsertInvalid(branches, ranges) ==
    [k \in (DOMAIN branches) \cup ranges |-> IF k \in ranges THEN Invalid ELSE branches[k]]

\* Faulty variant of NicheFallback: the fallback names the variant after the untagged one.
NicheFallbackOffByOne(l) == Known(l.untagged_variant + 1)

\* Discriminator::Known(untagged_variant.as_usize().into())
NicheFallback(l) == Known(l.untagged_variant)

TranslateSingle ==
    /\ pc = "start"
    /\ layout.kind = "Single"
    /\ result' = EnumType(
           MapInsert(EmptyMap, SingleKey(layout), Variant(layout.index, layout.size, EmptyMap)),
           Known(SingleKey(layout)), layout.discriminant_ty, layout.size)
    /\ pc' = "done"
    /\ UNCHANGED <<layout, variant_idx, translated_variants, discriminator_branches,
                   query, bits_in, bits_out>>

BeginMultiple ==
    /\ pc = "start"
    /\ layout.kind \in {"Direct", "Niche"}
    /\ translated_variants' = EmptyMap
    /\ discriminator_branches' = EmptyMap
    /\ variant_idx' = 0
    /\ pc' = "loop"
    /\ UNCHANGED <<layout, result, query, bits_in, bits_out>>

VariantDirect ==
    /\ pc = "loop"
    /\ variant_idx < layout.nvariants
    /\ layout.kind = "Direct"
    /\ translated_variants' =
           MapInsert(translated_variants, DiscrInt(layout, variant_idx),
                     Variant(variant_idx, layout.size, DirectTagger(layout, variant_idx)))
    /\ discriminator_branches' =
           MapInsert(discriminator_branches,
                     <<DiscrInt(layout, variant_idx), DiscrInt(layout, variant_idx)>>,
                     Known(DiscrInt(layout, variant_idx)))
    /\ variant_idx' = variant_idx + 1
    /\ UNCHANGED <<pc, layout, result, query, bits_in, bits_out>>

VariantNicheTagged ==
    /\ pc = "loop"
    /\ variant_idx < layout.nvariants
    /\ layout.kind = "Niche"
    /\ layout.untagged_variant # variant_idx
    /\ discriminator_branches' =
           MapInsert(discriminator_branches,
                     <<NicheTagInt(layout, variant_idx), NicheTagInt(layout, variant_idx)>>,
                     Known(NicheDiscrInt(layout, variant_idx)))
    /\ translated_variants' =
           MapInsert(translated_variants, NicheDiscrInt(layout, variant_idx),
                     Variant(variant_idx, layout.size,
                             MapInsert(EmptyMap, layout.tag_offset,
                                       <<layout.tag_ty, NicheTagInt(layout, variant_idx)>>)))
    /\ variant_idx' = variant_idx + 1
    /\ UNCHANGED <<pc, layout, result, query, bits_in, bits_out>>

VariantNicheUntagged ==
    /\ pc = "loop"
    /\ variant_idx < layout.nvariants
    /\ layout.kind = "Niche"
    /\ layout.untagged_variant = variant_idx
    /\ translated_variants' =
           MapInsert(translated_variants, DiscrInt(layout, variant_idx),
                     Variant(variant_idx, layout.size, EmptyMap))
    /\ variant_idx' = variant_idx + 1
    /\ UNCHANGED <<pc, layout, discriminator_branches, result, query, bits_in, bits_out>>

FinishDirect ==
    /\ pc = "loop"
    /\ variant_idx = layout.nvariants
    /\ layout.kind = "Direct"
    /\ result' = EnumType(translated_variants,
                          Branch(layout.tag_offset, layout.tag_ty, DirectFallback(layout),
                                 discriminator_branches),
                          layout.discriminant_ty, layout.size)
    /\ pc' = "done"
    /\ UNCHANGED <<layout, variant_idx, translated_variants, discriminator_branches,
                   query, bits_in, bits_out>>

FinishNiche ==
    /\ pc = "loop"
    /\ variant_idx = layout.nvariants
    /\ layout.kind = "Niche"
    /\ discriminator_branches' =
           InsertInvalid(discriminator_branches, NicheInvalidBranches(layout))
    /\ result' = EnumType(translated_variants,
                          Branch(layout.tag_offset, layout.tag_ty, NicheFallback(layout),
                                 discriminator_branches'),
                          layout.discriminant_ty, layout.size)
    /\ pc' = "done"
    /\ UNCHANGED <<layout, variant_idx, translated_variants, query, bits_in, bits_out>>

----------------------------------------------------------------------------
(* discriminant_for_variant *)

DiscriminantForVariant ==
    /\ pc = "done"
    /\ \E idx \in VariantIdxs(layout) :
           query' = [idx |-> idx, value |-> IntFromBits(DiscrVal(layout, idx),
                                                        layout.discriminant_ty)]
    /\ pc' = "queried"
    /\ UNCHANGED <<layout, variant_idx, translated_variants, discriminator_branches,
                   result, bits_in, bits_out>>

----------------------------------------------------------------------------
(* int_from_bits on the bit pattern of a representable value *)

CallIntFromBits ==
    /\ pc = "bits"
    /\ bits_out' = IntFromBits(bits_in.bits, bits_in.ity)
    /\ pc' = "bits_done"
    /\ UNCHANGED <<layout, variant_idx, translated_variants, discriminator_branches,
                   result, query, bits_in>>

----------------------------------------------------------------------------
(* Specifications *)

Init ==
    /\ pc = "start"
    /\ layout \in Layouts
    /\ variant_idx = 0
    /\ translated_variants = EmptyMap
    /\ discriminator_branches = EmptyMap
    /\ result = NoEnum
    /\ query = NoQuery
    /\ bits_in = NoBits
    /\ bits_out = 0

Next ==
    \/ TranslateSingle
    \/ BeginMultiple
    \/ VariantDirect
    \/ VariantNicheTagged
    \/ VariantNicheUntagged
    \/ FinishDirect
    \/ FinishNiche
    \/ DiscriminantForVariant

Spec == Init /\ [][Next]_vars

\* A value of an integer type with its bit pattern at the width of the type.
BitsInput(ity, x) == [bits |-> ToBits(x, ity.bits), ity |-> ity, value |-> x]

InitBits ==
    /\ pc = "bits"
    /\ \E ity \in IntTypes : \E x \in IntDomain(ity) : bits_in = BitsInput(ity, x)
    /\ bits_out = 0
    /\ layout = [kind |-> "None"]
    /\ variant_idx = 0
    /\ translated_variants = EmptyMap
    /\ discriminator_branches = EmptyMap
    /\ result = NoEnum
    /\ query = NoQuery

NextBits == CallIntFromBits

SpecBits == InitBits /\ [][NextBits]_vars

----------------------------------------------------------------------------
(* The consumer of the output: the interpreter writes a variant's tagger into   *)
(* memory and evaluates the discriminator on memory.  Memory is a function from *)
(* byte offsets to bytes; the modelled tags are one byte wide.                  *)

Bytes == 0 .. 255

\* The bytes the fields outside the tag hold in the modelled memories.
FieldBytes == {0, 255}

\* Encoding of an integer of a one-byte type.
EncodeInt(x, ity) == x % 256

\* Decoding of a byte at an integer type.
DecodeInt(byte, ity) == IF ity.signed /\ byte >= 128 THEN byte - 256 ELSE byte

\* Write every (offset, (type, value)) entry of the tagger.
WriteTagger(mem, tagger) ==
    [o \in DOMAIN mem |->
        IF o \in DOMAIN tagger THEN EncodeInt(tagger[o][2], tagger[o][1]) ELSE mem[o]]

\* The children of a Branch whose range [lo, hi] contains x.
MatchingChildren(d, x) == {k \in DOMAIN d.children : k[1] <= x /\ x <= k[2]}

\* The terminals the evaluation of discriminator d on mem can end in: a terminal is
\* itself; a Branch reads the integer at its offset and descends into a child whose
\* range contains it, into the fallback when there is none.  (translate_enum nests
\* no Branch inside a Branch.)
Outcomes(d, mem) ==
    IF d.node # "Branch"
    THEN {d}
    ELSE LET x == DecodeInt(mem[d.offset], d.value_type)
         IN  IF MatchingChildren(d, x) = {}
             THEN {d.fallback}
             ELSE {d.children[k] : k \in MatchingChildren(d, x)}

\* The memories holding valid field bytes of the variant translated from index idx:
\* every byte outside the tag field holds the same field byte; the tag field of the
\* untagged variant of a niche enum holds one of that variant's own values, the tag
\* field of any other variant is not written before the tagger is.
VariantMemories(l, idx) ==
    IF l.kind = "Niche" /\ idx = l.untagged_variant
    THEN {[o \in 0 .. (l.size - 1) |-> IF o = l.tag_offset THEN b ELSE f] :
             b \in UntaggedBits(l), f \in FieldBytes}
    ELSE {[o \in 0 .. (l.size - 1) |-> f] : f \in FieldBytes}

----------------------------------------------------------------------------
(* Properties *)

Translated == pc = "done"

InRange(k, x) == k[1] <= x /\ x <= k[2]

\* The value of the integer type congruent to x modulo 2^bits.
AtWidth(x, ity) == CHOOSE y \in IntDomain(ity) : (y - x) % Pow2(ity.bits) = 0

Children == result.discriminator.children

InvalidChildren == {k \in DOMAIN Children : Children[k] = Invalid}

KnownChildren == {k \in DOMAIN Children : Children[k].node = "Known"}

\* The keys of the variants that write a tag.
TaggedKeys == {v \in DOMAIN result.variants : DOMAIN result.variants[v].tagger # {}}

TagValue(v) == result.variants[v].tagger[layout.tag_offset][2]

\* The keys under which the variant translated from index idx is stored.
KeysOf(idx) == {v \in DOMAIN result.variants : result.variants[v].fields = idx}

\* C1: round trip.  For every variant key v of a translated enum, writing the tagger
\* of v into any memory holding valid field bytes of v and evaluating the
\* discriminator on it ends in Known(v) and in nothing else.
C1_RoundTrip ==
    Translated =>
        \A v \in DOMAIN result.variants :
            \A mem \in VariantMemories(layout, result.variants[v].fields) :
                Outcomes(result.discriminator, WriteTagger(mem, result.variants[v].tagger))
                    = {Known(v)}

\* A signed niche enum of three variants whose untagged variant has tag values of its own.
C1_Witness ==
    /\ Translated
    /\ layout.kind = "Niche"
    /\ layout.tag_ty.signed
    /\ layout.nvariants = 3
    /\ UntaggedBits(layout) # {}
    /\ Cardinality(DOMAIN result.variants) = 3

\* The Known terminals reachable from a discriminator.
KnownTerminals(d) ==
    IF d.node = "Known" THEN {d.v}
    ELSE IF d.node = "Invalid" THEN {}
    ELSE {d.children[k].v : k \in {c \in DOMAIN d.children : d.children[c].node = "Known"}}
         \cup (IF d.fallback.node = "Known" THEN {d.fallback.v} ELSE {})

\* C2: every Known(v) terminal reachable from the discriminator of a translated enum
\* has an entry with key v in the variants map.
C2_KnownHasVariant ==
    Translated => KnownTerminals(result.discriminator) \subseteq DOMAIN result.variants

\* A niche enum whose untagged variant is the last one, reached by the fallback.
C2_Witness ==
    /\ Translated
    /\ layout.kind = "Niche"
    /\ layout.untagged_variant = layout.nvariants - 1
    /\ result.discriminator.fallback = Known(layout.nvariants - 1)
    /\ KnownChildren # {}

\* C3: totality.  The ranges of the children of a Branch built by translate_enum are
\* pairwise disjoint, so every value of the domain of value_type lies in at most one
\* child, and the fallback is a terminal that takes the values no child contains.
C3_Totality ==
    (Translated /\ result.discriminator.node = "Branch") =>
        /\ \A k1, k2 \in DOMAIN Children :
               k1 # k2 => (k1[2] < k2[1] \/ k2[2] < k1[1])
        /\ \A x \in IntDomain(result.discriminator.value_type) :
               Cardinality({k \in DOMAIN Children : InRange(k, x)}) <= 1
        /\ result.discriminator.fallback.node \in {"Known", "Invalid"}

\* A niche Branch with two tagged variants and an Invalid range on either side.
C3_Witness ==
    /\ Translated
    /\ layout.kind = "Niche"
    /\ Cardinality(InvalidChildren) = 2
    /\ Cardinality(KnownChildren) >= 2

\* C4: discriminant_for_variant is consistent with translate_enum.  The Int returned
\* for variant index idx equals the key under which translate_enum stores the variant
\* translated from idx.
C4_DiscriminantConsistent ==
    pc = "queried" => \A v \in KeysOf(query.idx) : v = query.value

\* C5: niche injectivity.  Distinct tagged variants of a niche enum write distinct tag
\* values, no branch child has been overwritten (there is one Known child per tagged
\* variant), and no tag value lies in a child range that maps to Invalid.
C5_NicheInjective ==
    (Translated /\ layout.kind = "Niche") =>
        /\ \A v1, v2 \in TaggedKeys : v1 # v2 => TagValue(v1) # TagValue(v2)
        /\ Cardinality(TaggedKeys) = layout.nvariants - 1
        /\ Cardinality(KnownChildren) = layout.nvariants - 1
        /\ \A v \in TaggedKeys : \A k \in InvalidChildren : ~InRange(k, TagValue(v))

\* A niche enum whose tag values wrap around the tag type and that has an Invalid range.
C5_Witness ==
    /\ Translated
    /\ layout.kind = "Niche"
    /\ InvalidChildren # {}
    /\ \E v1, v2 \in TaggedKeys : v1 < v2 /\ TagValue(v1) > TagValue(v2)

\* C6: bit-codec inverse.  int_from_bits applied to the two's-complement bit pattern of
\* a value representable in the integer type returns that value.
C6_BitCodecInverse ==
    pc = "bits_done" => bits_out = bits_in.value

\* A negative value of the signed 16-bit type has been recovered from its bit pattern.
C6_Witness ==
    /\ pc = "bits_done"
    /\ bits_in.ity = IntType(TRUE, 16)
    /\ bits_in.value < 0
    /\ bits_in.bits >= 32768
    /\ bits_out = bits_in.value

\* The declared discriminants of the enum.
DeclaredSet == {Declared(layout, idx) : idx \in VariantIdxs(layout)}

\* C7: direct tagging.  The variant with discriminant d is stored with the tagger
\* {tag_offset: (tag_type, d at the tag's width)}, a value of the tag type's domain; the
\* Branch has exactly one child [d, d] -> Known(d) per variant and the fallback Invalid,
\* so a tag value of the domain that is no discriminant lies in no child and resolves
\* to Invalid.
C7_DirectTagging ==
    (Translated /\ layout.kind = "Direct") =>
        /\ \A idx \in VariantIdxs(layout) :
               LET d == Declared(layout, idx)
               IN  /\ KeysOf(idx) = {d}
                   /\ result.variants[d].tagger =
                          MapInsert(EmptyMap, layout.tag_offset,
                                    <<layout.tag_ty, AtWidth(d, layout.tag_ty)>>)
                   /\ TagValue(d) \in IntDomain(layout.tag_ty)
        /\ DOMAIN Children = {<<d, d>> : d \in DeclaredSet}
        /\ \A k \in DOMAIN Children : Children[k] = Known(k[1])
        /\ result.discriminator.fallback = Invalid
        /\ \A x \in IntDomain(layout.tag_ty) \ DeclaredSet :
               \A k \in DOMAIN Children : ~InRange(k, x)

\* Three variants, one of them negative, with a 16-bit discriminant type and a signed
\* 8-bit tag.
C7_Witness ==
    /\ Translated
    /\ layout.kind = "Direct"
    /\ layout.nvariants = 3
    /\ layout.discriminant_ty = IntType(TRUE, 16)
    /\ layout.tag_ty = IntType(TRUE, 8)
    /\ \E d \in DOMAIN result.variants : d < 0 /\ TagValue(d) = d

\* C8: niche tagging.  Every variant other than the untagged one has the tagger
\* {tag_offset: (tag_type, tag_value)} with tag_value = discriminant -
\* niche_variants.start + niche_start wrapped into the tag type, and the branch child
\* [tag_value, tag_value] -> Known(discriminant); the untagged variant has an empty
\* tagger, is no branch child, and the fallback is Known of its discriminant.
C8_NicheTagging ==
    (Translated /\ layout.kind = "Niche") =>
        /\ \A idx \in VariantIdxs(layout) \ {layout.untagged_variant} :
               LET d == Declared(layout, idx)
                   tag_value == AtWidth(d - layout.niche_variants[1] + layout.niche_start,
                                        layout.tag_ty)
               IN  /\ KeysOf(idx) # {}
                   /\ \A v \in KeysOf(idx) :
                          result.variants[v].tagger =
                              MapInsert(EmptyMap, layout.tag_offset,
                                        <<layout.tag_ty, tag_value>>)
                   /\ <<tag_value, tag_value>> \in DOMAIN Children
                   /\ Children[<<tag_value, tag_value>>] = Known(d)
        /\ LET u == Declared(layout, layout.untagged_variant)
           IN  /\ KeysOf(layout.untagged_variant) = {u}
               /\ result.variants[u].tagger = EmptyMap
               /\ \A k \in DOMAIN Children : Children[k] # Known(u)
               /\ result.discriminator.fallback = Known(u)

\* The Invalid ranges the valid range [start, end] of the tag calls for.
ExpectedGaps(l) ==
    LET start == AtWidth(l.valid_range[1], l.tag_ty)
        end == AtWidth(l.valid_range[2], l.tag_ty)
        domain_min == IntMin(l.tag_ty)
        domain_max == IntMax(l.tag_ty)
    IN  IF start <= end
        THEN {<<end + 1, domain_max>> : x \in {0} \cap (IF end < domain_max THEN {0} ELSE {})}
             \cup {<<domain_min, start - 1>> :
                       x \in {0} \cap (IF domain_min < start THEN {0} ELSE {})}
        ELSE IF end + 1 < start THEN {<<end + 1, start - 1>>} ELSE {}

\* C9: niche gap derivation.  The children mapping to Invalid are exactly: for
\* start <= end, [end+1, domain_max] if end < domain_max and [domain_min, start-1] if
\* domain_min < start; for end+1 < start, the one range [end+1, start-1]; for
\* end+1 = start, none.
C9_GapDerivation ==
    (Translated /\ layout.kind = "Niche") => InvalidChildren = ExpectedGaps(layout)

\* Unsigned 8-bit tag with valid range [10, 10]: the gaps are [11, 255] and [0, 9].
C9_Witness ==
    /\ Translated
    /\ layout.kind = "Niche"
    /\ layout.tag_ty = IntType(FALSE, 8)
    /\ layout.valid_range = <<10, 10>>
    /\ InvalidChildren = {<<11, 255>>, <<0, 9>>}

\* C10: the tag values the Invalid children cover are exactly those whose bit pattern
\* lies outside the wrap-around valid range start..=end of the tag, and every Invalid
\* range [lo, hi] has lo <= hi and lies inside the domain of the tag type.
C10_InvalidIsComplement ==
    (Translated /\ layout.kind = "Niche") =>
        /\ LET valid == WrapRange(layout.valid_range[1], layout.valid_range[2],
                                  layout.tag_ty.bits)
               invalid == InvalidChildren
           IN  \A x \in IntDomain(layout.tag_ty) :
                   (\E k \in invalid : InRange(k, x))
                       <=> (ToBits(x, layout.tag_ty.bits) \notin valid)
        /\ \A k \in InvalidChildren :
               /\ k[1] <= k[2]
               /\ k[1] \in IntDomain(layout.tag_ty)
               /\ k[2] \in IntDomain(layout.tag_ty)

\* A signed tag whose valid range wraps as bit patterns (255..=5) and, read as signed
\* values (-1..=5), leaves an Invalid range on either side.
C10_Witness ==
    /\ Translated
    /\ layout.kind = "Niche"
    /\ layout.tag_ty = IntType(TRUE, 8)
    /\ layout.valid_range = <<255, 5>>
    /\ InvalidChildren = {<<6, 127>>, <<0 - 128, 0 - 2>>}

====
